---- MODULE Spec2Model ----
(***************************************************************************)
(* Model of the campaign asset pipeline: PromptCache (cache.py),           *)
(* LLMClient (llm_client.py), ImageClient (image_client.py),               *)
(* CoherenceScorer (scorer.py) and OrchestratorAgent (langchain_agent.py). *)
(*                                                                         *)
(* Texts, paths and cache keys are strings.  Scores are fixed-point        *)
(* numbers: ScoreScale stands for 1.0.                                      *)
(***************************************************************************)
EXTENDS Integers, Sequences, FiniteSets, TLC

\* ---------------------------------------------------------------- bounds
MaxRuns == 2
MaxBackendItems == 3
MaxChainItems == 1
MaxCacheOps == 3

\* ------------------------------------------------------ program constants
DefaultNumHeadlines == 2
DefaultNumLong == 1
TopK == 6
NeutralScore == 400
ScoreScale == 1000
NormScale == 10
Eps == 1
TextDim == 3
ClipDim == 2
HashBytes == 2

CACHE_DIR == "./cache"
OUT == "./outputs"

Min(a, b) == IF a < b THEN a ELSE b
Max(a, b) == IF a > b THEN a ELSE b
Take(s, n) == SubSeq(s, 1, Min(n, Len(s)))
Range(s) == {s[i] : i \in 1..Len(s)}

\* ------------------------------------------------------------- cache.py
\* a digest of the length of the text only: texts of equal length collide
DigestOfLength(prompt) == "sha256(" \o ToString(Len(prompt)) \o ")"

\* hashlib.sha256(prompt).hexdigest(): collision-free on the texts used here
Sha256(prompt) == "sha256(" \o prompt \o ")"

\* a key that does not depend on the prompt
KeyShared(prompt) == CACHE_DIR \o "/" \o Sha256("") \o ".json"

\* PromptCache._key
Key(prompt) == CACHE_DIR \o "/" \o Sha256(prompt) \o ".json"

\* json.dump of a {path, url, prompt} dict: the text of the file, as tokens
JsonDump(data) == <<"path", data.path, "url", data.url, "prompt", data.prompt>>

JsonField(text, name) ==
    text[(CHOOSE i \in 1..Len(text) : i % 2 = 1 /\ text[i] = name) + 1]

\* a load that gives back the path and the prompt but not the url
JsonLoadPathOnly(text) ==
    [path |-> JsonField(text, "path"),
     url |-> "",
     prompt |-> JsonField(text, "prompt")]

\* json.load of such a file
JsonLoad(text) ==
    [path |-> JsonField(text, "path"),
     url |-> JsonField(text, "url"),
     prompt |-> JsonField(text, "prompt")]

\* Python None as the empty option; a value v as <<v>>
None == <<>>
Some(v) == <<v>>

\* PromptCache.get on the directory contents fs (file path -> file text)
CacheGet(fs, prompt) ==
    IF Key(prompt) \in DOMAIN fs THEN Some(JsonLoad(fs[Key(prompt)])) ELSE None

\* a set that leaves an existing file alone
CacheSetKeepFirst(fs, prompt, data) ==
    [p \in DOMAIN fs \cup {Key(prompt)} |->
        IF p \in DOMAIN fs THEN fs[p] ELSE JsonDump(data)]

\* PromptCache.set: open(path, "w") truncates and rewrites that one file
CacheSet(fs, prompt, data) ==
    [p \in DOMAIN fs \cup {Key(prompt)} |->
        IF p = Key(prompt) THEN JsonDump(data) ELSE fs[p]]

\* a lookup that takes a record without a file for a miss
TruthyHasPath(opt) == opt # None /\ opt[1].path # ""

\* `if cached:` - None and empty containers are falsy
Truthy(opt) == opt # None

\* ------------------------------------------------------- image_client.py
\* os.path.join(OUT, f"{uuid}.png")
PngPath(uuid) == OUT \o "/" \o ToString(uuid) \o ".png"

\* f"file://{os.path.abspath(path)}"
FileUrl(path) == "file://" \o "/app/" \o path

RenderedImage(path, prompt) ==
    [path |-> path, url |-> FileUrl(path), prompt |-> prompt]

EmptyImage(prompt) == [path |-> "", url |-> "", prompt |-> prompt]

\* the attempts with the two client blocks swapped
AttemptsLegacyFirst(prov, newOK, legacyOK, placeholderOK) ==
    IF prov = "openai" /\ legacyOK THEN <<"legacy">>
    ELSE IF prov = "openai" /\ newOK THEN <<"legacy", "new">>
    ELSE LET clients == IF prov = "openai" THEN <<"legacy", "new">> ELSE <<>>
         IN  IF placeholderOK THEN clients \o <<"placeholder">>
             ELSE clients \o <<"placeholder", "empty">>

\* The attempts ImageClient.generate_image makes, in order: each try block
\* returns when its step succeeds and falls through to the next when it raises.
\* The two client blocks are entered only when provider == "openai".
Attempts(prov, newOK, legacyOK, placeholderOK) ==
    IF prov = "openai" /\ newOK THEN <<"new">>
    ELSE IF prov = "openai" /\ legacyOK THEN <<"new", "legacy">>
    ELSE LET clients == IF prov = "openai" THEN <<"new", "legacy">> ELSE <<>>
         IN  IF placeholderOK THEN clients \o <<"placeholder">>
             ELSE clients \o <<"placeholder", "empty">>

\* ImageClient.generate_image: the record returned, the attempts made and
\* whether each succeeded; no path leaves the function by an exception
GenerateImage(prov, prompt, uuid, newOK, legacyOK, placeholderOK) ==
    LET tried == Attempts(prov, newOK, legacyOK, placeholderOK)
        last == tried[Len(tried)]
    IN  [img |-> IF last = "empty" THEN EmptyImage(prompt)
                 ELSE RenderedImage(PngPath(uuid), prompt),
         tried |-> tried,
         ok |-> [k \in 1..Len(tried) |->
                    CASE tried[k] = "new" -> newOK
                      [] tried[k] = "legacy" -> legacyOK
                      [] tried[k] = "placeholder" -> placeholderOK
                      [] OTHER -> TRUE],
         raised |-> FALSE]

\* --------------------------------------------------------- llm_client.py
FallbackHeadline(product, i) == product \o " - Unleash Energy #" \o ToString(i)
FallbackLong(product, i) == product \o " long copy version " \o ToString(i)

\* while len(list) < n: list.append(template(len(list)+1))
RECURSIVE PadHeadlines(_, _, _)
PadHeadlines(list, n, product) ==
    IF Len(list) < n
    THEN PadHeadlines(Append(list, FallbackHeadline(product, Len(list) + 1)), n, product)
    ELSE list

RECURSIVE PadLong(_, _, _)
PadLong(list, n, product) ==
    IF Len(list) < n
    THEN PadLong(Append(list, FallbackLong(product, Len(list) + 1)), n, product)
    ELSE list

\* What the chat backend does for one call: no key, an exception anywhere in
\* the try block, or a JSON object with some headlines and long copies.
LlmItems(kind, n) == [i \in 1..n |-> "LLM " \o kind \o " " \o ToString(i)]

ChatResponses ==
    {[kind |-> "nokey", headlines |-> <<>>, long |-> <<>>],
     [kind |-> "error", headlines |-> <<>>, long |-> <<>>]}
    \cup {[kind |-> "json", headlines |-> LlmItems("headline", a),
           long |-> LlmItems("long", b)] :
            a \in 0..MaxBackendItems, b \in 0..MaxBackendItems}

\* LLMClient.generate_copy_variations(brief, num_headlines, num_long)
GenerateCopyVariations(brief, num_headlines, num_long, resp) ==
    IF resp.kind = "json"
    THEN [headlines |-> PadHeadlines(Take(resp.headlines, num_headlines),
                                     num_headlines, brief.product),
          long |-> PadLong(Take(resp.long, num_long), num_long, brief.product)]
    ELSE [headlines |-> PadHeadlines(<<>>, num_headlines, brief.product),
          long |-> PadLong(<<>>, num_long, brief.product)]

\* LLMClient.generate_image_prompts: one prompt per copy
GenerateImagePrompts(brief, copies) ==
    [i \in 1..Len(copies) |->
        "Ad image for " \o brief.product \o " targeting " \o brief.audience]

\* -------------------------------------------------------------- scorer.py
Caption == "A high-energy image with product in focus and vibrant colors."

\* Every text the scorer can be handed, in a fixed order; an embedding is a
\* function of the text alone, here of its position in this list.
TextSeq ==
    LET perProduct(p) ==
            [i \in 1..(DefaultNumHeadlines + DefaultNumLong) |->
                IF i <= DefaultNumHeadlines THEN FallbackHeadline(p, i)
                ELSE FallbackLong(p, i - DefaultNumHeadlines)]
    IN  <<Caption, "">> \o perProduct("Aqua") \o perProduct("Test")
        \o LlmItems("headline", Max(MaxBackendItems, MaxChainItems))
        \o LlmItems("long", Max(MaxBackendItems, MaxChainItems))

TextCode(text) == CHOOSE i \in 1..Len(TextSeq) : TextSeq[i] = text

RECURSIVE Bisect(_, _, _)
Bisect(n, lo, hi) ==
    IF lo >= hi THEN lo
    ELSE LET mid == (lo + hi + 1) \div 2
         IN  IF mid * mid <= n THEN Bisect(n, mid, hi) ELSE Bisect(n, lo, mid - 1)

\* floor of the square root
ISqrt(n) == Bisect(n, 0, Min(n, 46340))

RECURSIVE SumSeq(_)
SumSeq(s) == IF s = <<>> THEN 0 ELSE s[1] + SumSeq(Tail(s))

\* np.linalg.norm, in units of 1/NormScale, rounded down
Norm(v) == ISqrt(NormScale * NormScale * SumSeq([k \in 1..Len(v) |-> v[k] * v[k]]))

\* np.dot of two 1-d arrays; defined only for equal shapes
Dot(a, b) == SumSeq([k \in 1..Len(a) |-> a[k] * b[k]])

\* openai.Embedding.create: a vector of the backend's dimension, any sign
BackendEmbedding(text, dim) ==
    [k \in 1..dim |-> ((TextCode(text) * (k + 1) + k) % 5) - 2]

\* sha256 digest bytes as floats, zero-padded to the canonical dimension
HashEmbedding(text) ==
    [k \in 1..TextDim |->
        IF k <= HashBytes THEN (TextCode(text) * (k + 2) + 1) % 4 ELSE 0]

\* CoherenceScorer._text_embedding: the backend's vector, or on any exception
\* the hashed one.  embed is "fail", or the dimension the backend answers with.
TextEmbedding(text, embed) ==
    IF embed = "text" THEN BackendEmbedding(text, TextDim)
    ELSE IF embed = "clip" THEN BackendEmbedding(text, ClipDim)
    ELSE HashEmbedding(text)

\* Image.open(image_path) raises for a path that names no file
ImageOpens(path) == path # ""

\* clip_model.encode_image: a vector of the CLIP dimension for the image
ClipRaw(path) ==
    LET n == CHOOSE i \in 0..(8 * 8) : PngPath(i) = path
    IN  [k \in 1..ClipDim |-> ((n * (k + 2) + 2 * k) % 5) - 2]

\* CoherenceScorer._image_embedding_clip: emb / (norm + 1e-10)
ImageEmbeddingClip(path) ==
    LET raw == ClipRaw(path)
    IN  [k \in 1..ClipDim |-> (raw[k] * NormScale * NormScale) \div (Norm(raw) + Eps)]

\* lines 72-73 of score: dot / (norm * norm + 1e-12), in units of 1/ScoreScale
Cosine(text_emb, img_emb) ==
    LET denom == Norm(text_emb) * Norm(img_emb) + Eps
    IN  (Dot(text_emb, img_emb) * NormScale * NormScale * ScoreScale) \div denom

\* the mapping without its clamp
SimilarityUnclamped(text_emb, img_emb) ==
    (Cosine(text_emb, img_emb) + ScoreScale) \div 2

\* line 75: max(0.0, min(1.0, (score + 1.0) / 2.0))
Similarity(text_emb, img_emb) ==
    Max(0, Min(ScoreScale, (Cosine(text_emb, img_emb) + ScoreScale) \div 2))

\* Does the try block of score raise?  With CLIP loaded the image must open;
\* np.dot raises on vectors of different length.
ScoreRaises(text, image_path, embed, clip) ==
    IF clip
    THEN ~ImageOpens(image_path) \/ Len(TextEmbedding(text, embed)) # ClipDim
    ELSE FALSE

\* CoherenceScorer.score
Score(text, image_path, embed, clip) ==
    IF ScoreRaises(text, image_path, embed, clip) THEN NeutralScore
    ELSE Similarity(TextEmbedding(text, embed),
                    IF clip THEN ImageEmbeddingClip(image_path)
                    ELSE TextEmbedding(Caption, embed))

\* ------------------------------------------------------ langchain_agent.py
\* The briefs handed to run: an end-to-end scenario (3 headlines, 2 long
\* copies) and the brief of tests/test_basic.py (1 headline, no long copy)
Scenario3 ==
    [product |-> "Aqua", audience |-> "teens", tone |-> "fun", goal |-> "awareness",
     platform |-> <<"web">>, num_headlines |-> 3, num_long |-> 2]
TestBrief ==
    [product |-> "Test", audience |-> "dev", tone |-> "tone", goal |-> "g",
     platform |-> <<"web">>, num_headlines |-> 1, num_long |-> 0]
Briefs == {Scenario3, TestBrief}

\* What an LLMChain.run call returns: a JSON array of strings, or free text
\* whose lines may carry bullets and blanks.  A line is <<bullet, text>>.
ChainOutputs(kind) ==
    {[fmt |-> "json", items |-> LlmItems(kind, n), lines |-> <<>>] : n \in 0..MaxChainItems}
    \cup {[fmt |-> "lines", items |-> <<>>,
           lines |-> [i \in 1..(n + 1) |->
                        IF i <= n THEN <<"- ", LlmItems(kind, n)[i]>> ELSE <<"", "">>]] :
            n \in 0..MaxChainItems}

RECURSIVE NonBlank(_)
NonBlank(lines) ==
    IF lines = <<>> THEN <<>>
    ELSE IF lines[1][2] = "" THEN NonBlank(Tail(lines))
    ELSE <<lines[1][2]>> \o NonBlank(Tail(lines))

\* lines 103-116: json.loads, else the stripped non-blank lines
ParseChainOutput(raw) == IF raw.fmt = "json" THEN raw.items ELSE NonBlank(raw.lines)

\* The image prompts the prompt chain's LLM may answer with
ChainPrompts == {"Scene A", "Scene B"}

\* an insertion that puts an element before its equals
RECURSIVE InsertDescUnstable(_, _, _)
InsertDescUnstable(order, i, results) ==
    IF order = <<>> THEN <<i>>
    ELSE IF results[order[1]].score > results[i].score
         THEN <<order[1]>> \o InsertDescUnstable(Tail(order), i, results)
         ELSE <<i>> \o order

\* sorted(results, key=score, reverse=True) as the order of indices: a stable
\* sort, so an element goes behind every element whose score is >= its own.
RECURSIVE InsertDesc(_, _, _)
InsertDesc(order, i, results) ==
    IF order = <<>> THEN <<i>>
    ELSE IF results[order[1]].score >= results[i].score
         THEN <<order[1]>> \o InsertDesc(Tail(order), i, results)
         ELSE <<i>> \o order

RECURSIVE SortedOrder(_, _)
SortedOrder(results, n) ==
    IF n = 0 THEN <<>> ELSE InsertDesc(SortedOrder(results, n - 1), n, results)

\* [:6]
TopOrder(results) == Take(SortedOrder(results, Len(results)), TopK)

\* lines 148-152: copies outer, images inner
ScorePairs(cs, imgs, embed, clip) ==
    [k \in 1..(Len(cs) * Len(imgs)) |->
        LET c == cs[((k - 1) \div Len(imgs)) + 1]
            img == imgs[((k - 1) % Len(imgs)) + 1]
        IN  [copy |-> c, image_url |-> img.url, local_path |-> img.path,
             score |-> Score(c, img.path, embed, clip)]]

VARIABLES
    LANGCHAIN_AVAILABLE,  \* module flag of langchain_agent.py
    provider,             \* ImageClient.provider
    clip_model,           \* TRUE when scorer.py loaded CLIP
    embed,                \* the embedding backend: "fail", or "text"/"clip" for its dimension
    files,                \* the cache directory: file path -> file text
    nextUuid,             \* names the next artifact file
    run,                  \* number of runs started
    pc,                   \* stage of the current run
    brief, headlines, long_copies, copies, prompts,
    task,                 \* per prompt index: "pending" or "done"
    images,               \* per prompt index: the gathered result
    results, top, order,
    renderLog,            \* prompts handed to generate_image in this run, in call order
    writeLog,             \* prompts handed to cache.set in this run, in call order
    lastRender,           \* the latest generate_image call of the batch being rendered
    startFiles,           \* the cache directory when the batch was issued
    history,              \* one record per finished run
    harness,              \* direct PromptCache calls: count, last call, values set
    sanity,               \* TRUE when main.py built a SanityStorage
    http                  \* the responses of the /generate handler, one per request

cfgVars == <<LANGCHAIN_AVAILABLE, provider, clip_model, embed, sanity>>
runVars == <<brief, headlines, long_copies, copies, prompts, task, images, results, top, order>>
logVars == <<renderLog, writeLog, lastRender, startFiles>>
vars == <<cfgVars, files, nextUuid, run, pc, runVars, logVars, history, harness, http>>

\* Every prompt text a run can synthesize
PromptSeq ==
    <<GenerateImagePrompts(Scenario3, <<"c">>)[1], GenerateImagePrompts(TestBrief, <<"c">>)[1],
      "Scene A", "Scene B">>

\* The cache directory an earlier process leaves behind when it has rendered
\* the first k prompts of PromptSeq (artifact k for prompt k)
RECURSIVE LeftBehind(_)
LeftBehind(k) ==
    IF k = 0 THEN <<>>
    ELSE CacheSet(LeftBehind(k - 1), PromptSeq[k], RenderedImage(PngPath(k), PromptSeq[k]))

NoHarness == [ops |-> 0, last |-> None, stored |-> <<>>, keys |-> <<>>]

NoBrief == [product |-> "", audience |-> "", tone |-> "", goal |-> "",
            platform |-> <<>>, num_headlines |-> 0, num_long |-> 0]

Init ==
    /\ LANGCHAIN_AVAILABLE \in BOOLEAN
    /\ provider \in {"openai", "placeholder"}
    /\ clip_model \in BOOLEAN
    /\ embed \in {"fail", "text", "clip"}
    /\ sanity = FALSE
    /\ http = <<>>
    /\ \E k \in {0, Len(PromptSeq)} :
            /\ files = LeftBehind(k)
            /\ nextUuid = k + 1
    /\ harness = NoHarness
    /\ run = 0
    /\ pc = "Idle"
    /\ brief = NoBrief
    /\ headlines = <<>> /\ long_copies = <<>> /\ copies = <<>> /\ prompts = <<>>
    /\ task = <<>> /\ images = <<>> /\ results = <<>> /\ top = <<>> /\ order = <<>>
    /\ renderLog = <<>> /\ writeLog = <<>> /\ lastRender = None /\ startFiles = <<>>
    /\ history = <<>>

\* run is entered: the previous run's locals are gone
Enter(b) ==
    /\ pc = "Idle"
    /\ run < MaxRuns
    /\ run' = run + 1
    /\ brief' = b
    /\ task' = <<>> /\ images' = <<>> /\ results' = <<>> /\ top' = <<>> /\ order' = <<>>
    /\ renderLog' = <<>> /\ writeLog' = <<>> /\ lastRender' = None /\ startFiles' = <<>>
    /\ UNCHANGED <<cfgVars, files, nextUuid, history, harness, http>>

\* lines 129-131: the fallback client, called with its default counts
CopyFallback ==
    \E b \in Briefs, resp \in ChatResponses :
        /\ ~LANGCHAIN_AVAILABLE
        /\ Enter(b)
        /\ LET out == GenerateCopyVariations(b, DefaultNumHeadlines, DefaultNumLong, resp)
           IN  /\ headlines' = out.headlines
               /\ long_copies' = out.long
               /\ copies' = out.headlines \o out.long
        /\ prompts' = <<>>
        /\ pc' = "CopyGenerated"

\* lines 84-118: the two chains answer and their outputs are parsed
CopyChain ==
    \E b \in Briefs, raw_headlines \in ChainOutputs("headline"), raw_long \in ChainOutputs("long") :
        /\ LANGCHAIN_AVAILABLE
        /\ Enter(b)
        /\ headlines' = ParseChainOutput(raw_headlines)
        /\ long_copies' = ParseChainOutput(raw_long)
        /\ copies' = ParseChainOutput(raw_headlines) \o ParseChainOutput(raw_long)
        /\ prompts' = <<>>
        /\ pc' = "CopyGenerated"

\* lines 99-100: a chain call raises (no key, network); nothing catches it
CopyChainRaises ==
    \E b \in Briefs :
        /\ LANGCHAIN_AVAILABLE
        /\ Enter(b)
        /\ headlines' = <<>> /\ long_copies' = <<>> /\ copies' = <<>> /\ prompts' = <<>>
        /\ pc' = "Raised"

\* line 132
SynthFallback ==
    /\ pc = "CopyGenerated"
    /\ ~LANGCHAIN_AVAILABLE
    /\ prompts' = GenerateImagePrompts(brief, copies)
    /\ pc' = "PromptsSynthesized"
    /\ UNCHANGED <<cfgVars, files, nextUuid, run, brief, headlines, long_copies, copies,
                   task, images, results, top, order, logVars, history, harness, http>>

\* lines 121-126: one prompt-chain call per copy
SynthChain ==
    \E ps \in [1..Len(copies) -> ChainPrompts] :
        /\ pc = "CopyGenerated"
        /\ LANGCHAIN_AVAILABLE
        /\ prompts' = ps
        /\ pc' = "PromptsSynthesized"
        /\ UNCHANGED <<cfgVars, files, nextUuid, run, brief, headlines, long_copies, copies,
                       task, images, results, top, order, logVars, history, harness, http>>

\* line 125: a prompt-chain call raises
SynthChainRaises ==
    /\ pc = "CopyGenerated"
    /\ LANGCHAIN_AVAILABLE
    /\ copies # <<>>
    /\ pc' = "Raised"
    /\ UNCHANGED <<cfgVars, files, nextUuid, run, runVars, logVars, history, harness, http>>

\* line 144 and the start of gather: one task per entry of prompts
FanOut ==
    /\ pc = "PromptsSynthesized"
    /\ task' = [i \in 1..Len(prompts) |-> "pending"]
    /\ images' = [i \in 1..Len(prompts) |-> None]
    /\ startFiles' = files
    /\ pc' = "ImagesRendering"
    /\ UNCHANGED <<cfgVars, files, nextUuid, run, brief, headlines, long_copies, copies,
                   prompts, results, top, order, renderLog, writeLog, lastRender, history, harness, http>>

\* gen_prompt as it would run if generate_image suspended: the task yields to
\* the event loop between its cache miss and the render.
GenPromptSuspending(i) ==
    /\ pc = "ImagesRendering"
    /\ i \in 1..Len(task)
    /\ LET p == prompts[i]
           cached == CacheGet(files, p)
       IN  \/ /\ task[i] = "pending"
              /\ Truthy(cached)
              /\ images' = [images EXCEPT ![i] = cached]
              /\ task' = [task EXCEPT ![i] = "done"]
              /\ UNCHANGED <<files, nextUuid, renderLog, writeLog, lastRender>>
           \/ /\ task[i] = "pending"
              /\ ~Truthy(cached)
              /\ task' = [task EXCEPT ![i] = "awaiting"]
              /\ UNCHANGED <<files, nextUuid, renderLog, writeLog, lastRender, images>>
           \/ /\ task[i] = "awaiting"
              /\ \E newOK \in BOOLEAN, legacyOK \in BOOLEAN, placeholderOK \in BOOLEAN :
                  LET r == GenerateImage(provider, p, nextUuid, newOK, legacyOK, placeholderOK)
                  IN  /\ renderLog' = Append(renderLog, p)
                      /\ lastRender' = Some([prompt |-> p, tried |-> r.tried, ok |-> r.ok,
                                             img |-> r.img, raised |-> r.raised])
                      /\ nextUuid' = IF r.img.path = "" THEN nextUuid ELSE nextUuid + 1
                      /\ files' = CacheSet(files, p, r.img)
                      /\ writeLog' = Append(writeLog, p)
                      /\ images' = [images EXCEPT ![i] = Some(r.img)]
              /\ task' = [task EXCEPT ![i] = "done"]
    /\ UNCHANGED <<cfgVars, run, pc, brief, headlines, long_copies, copies, prompts,
                   results, top, order, startFiles, history, harness, http>>

\* gen_prompt without the cache lookup: every task renders
GenPromptNoLookup(i) ==
    /\ pc = "ImagesRendering"
    /\ i \in 1..Len(task)
    /\ task[i] = "pending"
    /\ \E newOK \in BOOLEAN, legacyOK \in BOOLEAN, placeholderOK \in BOOLEAN :
          LET p == prompts[i]
              r == GenerateImage(provider, p, nextUuid, newOK, legacyOK, placeholderOK)
          IN  /\ renderLog' = Append(renderLog, p)
              /\ lastRender' = Some([prompt |-> p, tried |-> r.tried, ok |-> r.ok,
                                     img |-> r.img, raised |-> r.raised])
              /\ nextUuid' = IF r.img.path = "" THEN nextUuid ELSE nextUuid + 1
              /\ files' = CacheSet(files, p, r.img)
              /\ writeLog' = Append(writeLog, p)
              /\ images' = [images EXCEPT ![i] = Some(r.img)]
    /\ task' = [task EXCEPT ![i] = "done"]
    /\ UNCHANGED <<cfgVars, run, pc, brief, headlines, long_copies, copies, prompts,
                   results, top, order, startFiles, history, harness, http>>

\* gen_prompt storing only what an image client produced: the placeholder
\* and the empty record are returned but not cached
GenPromptStoreClientOnly(i) ==
    /\ pc = "ImagesRendering"
    /\ i \in 1..Len(task)
    /\ task[i] = "pending"
    /\ LET p == prompts[i]
           cached == CacheGet(files, p)
       IN  IF Truthy(cached)
           THEN /\ images' = [images EXCEPT ![i] = cached]
                /\ UNCHANGED <<files, nextUuid, renderLog, writeLog, lastRender>>
           ELSE \E newOK \in BOOLEAN, legacyOK \in BOOLEAN, placeholderOK \in BOOLEAN :
                  LET r == GenerateImage(provider, p, nextUuid, newOK, legacyOK, placeholderOK)
                      fromClient == r.tried[Len(r.tried)] \in {"new", "legacy"}
                  IN  /\ renderLog' = Append(renderLog, p)
                      /\ lastRender' = Some([prompt |-> p, tried |-> r.tried, ok |-> r.ok,
                                             img |-> r.img, raised |-> r.raised])
                      /\ nextUuid' = IF r.img.path = "" THEN nextUuid ELSE nextUuid + 1
                      /\ files' = IF fromClient THEN CacheSet(files, p, r.img) ELSE files
                      /\ writeLog' = IF fromClient THEN Append(writeLog, p) ELSE writeLog
                      /\ images' = [images EXCEPT ![i] = Some(r.img)]
    /\ task' = [task EXCEPT ![i] = "done"]
    /\ UNCHANGED <<cfgVars, run, pc, brief, headlines, long_copies, copies, prompts,
                   results, top, order, startFiles, history, harness, http>>

\* gen_prompt, lines 136-142.  generate_image contains no await of its own, so
\* the task never yields to the event loop between cache.get and cache.set:
\* a task runs from start to end as one step, tasks in any order.
GenPrompt(i) ==
    /\ pc = "ImagesRendering"
    /\ i \in 1..Len(task)
    /\ task[i] = "pending"
    /\ LET p == prompts[i]
           cached == CacheGet(files, p)
       IN  IF Truthy(cached)
           THEN /\ images' = [images EXCEPT ![i] = cached]
                /\ UNCHANGED <<files, nextUuid, renderLog, writeLog, lastRender>>
           ELSE \E newOK \in BOOLEAN, legacyOK \in BOOLEAN, placeholderOK \in BOOLEAN :
                  LET r == GenerateImage(provider, p, nextUuid, newOK, legacyOK, placeholderOK)
                  IN  /\ renderLog' = Append(renderLog, p)
                      /\ lastRender' = Some([prompt |-> p, tried |-> r.tried, ok |-> r.ok,
                                             img |-> r.img, raised |-> r.raised])
                      /\ nextUuid' = IF r.img.path = "" THEN nextUuid ELSE nextUuid + 1
                      /\ files' = CacheSet(files, p, r.img)
                      /\ writeLog' = Append(writeLog, p)
                      /\ images' = [images EXCEPT ![i] = Some(r.img)]
    /\ task' = [task EXCEPT ![i] = "done"]
    /\ UNCHANGED <<cfgVars, run, pc, brief, headlines, long_copies, copies, prompts,
                   results, top, order, startFiles, history, harness, http>>

Render == \E i \in 1..Len(task) : GenPrompt(i)

\* a gather that returns with the first finished task, the unfinished ones
\* standing as records without a file
JoinFirstCompleted ==
    /\ pc = "ImagesRendering"
    /\ \E i \in 1..Len(task) : task[i] = "done"
    /\ images' = [i \in 1..Len(images) |->
                     IF images[i] = None THEN EmptyImage(prompts[i]) ELSE images[i][1]]
    /\ lastRender' = None
    /\ pc' = "ImagesComplete"
    /\ UNCHANGED <<cfgVars, files, nextUuid, run, brief, headlines, long_copies, copies,
                   prompts, task, results, top, order, renderLog, writeLog, startFiles,
                   history, harness, http>>

\* a gather that hands the results back last task first
JoinReversed ==
    /\ pc = "ImagesRendering"
    /\ \A i \in 1..Len(task) : task[i] = "done"
    /\ images' = [i \in 1..Len(images) |-> images[Len(images) + 1 - i][1]]
    /\ lastRender' = None
    /\ pc' = "ImagesComplete"
    /\ UNCHANGED <<cfgVars, files, nextUuid, run, brief, headlines, long_copies, copies,
                   prompts, task, results, top, order, renderLog, writeLog, startFiles,
                   history, harness, http>>

\* line 145: gather returns once every task is done, results in task order
Join ==
    /\ pc = "ImagesRendering"
    /\ \A i \in 1..Len(task) : task[i] = "done"
    /\ images' = [i \in 1..Len(images) |-> images[i][1]]
    /\ lastRender' = None
    /\ pc' = "ImagesComplete"
    /\ UNCHANGED <<cfgVars, files, nextUuid, run, brief, headlines, long_copies, copies,
                   prompts, task, results, top, order, renderLog, writeLog, startFiles,
                   history, harness, http>>

\* lines 148-152
ScoreAll ==
    /\ pc = "ImagesComplete"
    /\ results' = ScorePairs(copies, images, embed, clip_model)
    /\ pc' = "Scored"
    /\ UNCHANGED <<cfgVars, files, nextUuid, run, brief, headlines, long_copies, copies,
                   prompts, task, images, top, order, logVars, history, harness, http>>

\* line 153
Rank ==
    /\ pc = "Scored"
    /\ order' = TopOrder(results)
    /\ top' = [k \in 1..Len(TopOrder(results)) |-> results[TopOrder(results)[k]]]
    /\ pc' = "Ranked"
    /\ UNCHANGED <<cfgVars, files, nextUuid, run, brief, headlines, long_copies, copies,
                   prompts, task, images, results, logVars, history, harness, http>>

RunRecord(raised) ==
    [brief |-> brief, headlines |-> headlines, long_copies |-> long_copies,
     copies |-> copies, prompts |-> prompts,
     images |-> images, nresults |-> Len(results), top |-> top,
     startFiles |-> startFiles, renderLog |-> renderLog, writeLog |-> writeLog,
     raised |-> raised]

\* line 154: {"top_assets": top} goes back to the caller
Return ==
    /\ pc = "Ranked"
    /\ history' = Append(history, RunRecord(FALSE))
    /\ pc' = "Idle"
    /\ UNCHANGED <<cfgVars, files, nextUuid, run, runVars, logVars, harness, http>>

\* the exception leaves run
Propagate ==
    /\ pc = "Raised"
    /\ history' = Append(history, RunRecord(TRUE))
    /\ pc' = "Idle"
    /\ UNCHANGED <<cfgVars, files, nextUuid, run, runVars, logVars, harness, http>>

Next ==
    \/ CopyFallback
    \/ CopyChain
    \/ CopyChainRaises
    \/ SynthFallback
    \/ SynthChain
    \/ SynthChainRaises
    \/ FanOut
    \/ Render
    \/ Join
    \/ ScoreAll
    \/ Rank
    \/ Return
    \/ Propagate

Spec == Init /\ [][Next]_vars

\* ------------------------------------------- PromptCache called directly
CachePrompts == {PromptSeq[1], PromptSeq[3], PromptSeq[4]}

CacheValues ==
    {RenderedImage(PngPath(1), PromptSeq[1]), RenderedImage(PngPath(2), PromptSeq[3]),
     EmptyImage(PromptSeq[3])}

CacheInit ==
    /\ LANGCHAIN_AVAILABLE = FALSE
    /\ provider = "placeholder"
    /\ clip_model = FALSE
    /\ embed = "fail"
    /\ sanity = FALSE
    /\ http = <<>>
    /\ files = <<>>
    /\ nextUuid = 1
    /\ harness = [ops |-> 0, last |-> None, stored |-> [p \in CachePrompts |-> None],
                  keys |-> [p \in CachePrompts |-> {}]]
    /\ run = 0
    /\ pc = "Idle"
    /\ brief = NoBrief
    /\ headlines = <<>> /\ long_copies = <<>> /\ copies = <<>> /\ prompts = <<>>
    /\ task = <<>> /\ images = <<>> /\ results = <<>> /\ top = <<>> /\ order = <<>>
    /\ renderLog = <<>> /\ writeLog = <<>> /\ lastRender = None /\ startFiles = <<>>
    /\ history = <<>>

\* cache.set(prompt, data)
SetCall(prompt, data) ==
    /\ harness.ops < MaxCacheOps
    /\ files' = CacheSet(files, prompt, data)
    /\ harness' = [ops |-> harness.ops + 1,
                   last |-> Some([op |-> "set", prompt |-> prompt, data |-> Some(data),
                                  before |-> files, storedBefore |-> harness.stored]),
                   stored |-> [harness.stored EXCEPT ![prompt] = Some(data)],
                   keys |-> [harness.keys EXCEPT ![prompt] = @ \cup {Key(prompt)}]]
    /\ UNCHANGED <<cfgVars, nextUuid, run, pc, runVars, logVars, history, http>>

\* a get whose key is salted per call, as Python's built-in hash() is per process
GetCallSalted(prompt) ==
    /\ harness.ops < MaxCacheOps
    /\ LET path == CACHE_DIR \o "/" \o Sha256(prompt \o ToString(harness.ops)) \o ".json"
       IN  harness' = [ops |-> harness.ops + 1,
                       last |-> Some([op |-> "get", prompt |-> prompt,
                                      data |-> IF path \in DOMAIN files
                                               THEN Some(JsonLoad(files[path])) ELSE None,
                                      before |-> files, storedBefore |-> harness.stored]),
                       stored |-> harness.stored,
                       keys |-> [harness.keys EXCEPT ![prompt] = @ \cup {path}]]
    /\ UNCHANGED <<cfgVars, files, nextUuid, run, pc, runVars, logVars, history, http>>

\* cache.get(prompt)
GetCall(prompt) ==
    /\ harness.ops < MaxCacheOps
    /\ harness' = [ops |-> harness.ops + 1,
                   last |-> Some([op |-> "get", prompt |-> prompt,
                                  data |-> CacheGet(files, prompt),
                                  before |-> files, storedBefore |-> harness.stored]),
                   stored |-> harness.stored,
                   keys |-> [harness.keys EXCEPT ![prompt] = @ \cup {Key(prompt)}]]
    /\ UNCHANGED <<cfgVars, files, nextUuid, run, pc, runVars, logVars, history, http>>

CacheNext ==
    \/ \E prompt \in CachePrompts, data \in CacheValues : SetCall(prompt, data)
    \/ \E prompt \in CachePrompts : GetCall(prompt)

CacheSpec == CacheInit /\ [][CacheNext]_vars

\* ---------------------------------------------------- main.py: /generate
\* No API keys: the placeholder image provider, the embedding backend down
HttpInit ==
    /\ LANGCHAIN_AVAILABLE \in BOOLEAN
    /\ provider = "placeholder"
    /\ clip_model = FALSE
    /\ embed = "fail"
    /\ sanity \in BOOLEAN
    /\ http = <<>>
    /\ files = <<>>
    /\ nextUuid = 1
    /\ harness = NoHarness
    /\ run = 0
    /\ pc = "Idle"
    /\ brief = NoBrief
    /\ headlines = <<>> /\ long_copies = <<>> /\ copies = <<>> /\ prompts = <<>>
    /\ task = <<>> /\ images = <<>> /\ results = <<>> /\ top = <<>> /\ order = <<>>
    /\ renderLog = <<>> /\ writeLog = <<>> /\ lastRender = None /\ startFiles = <<>>
    /\ history = <<>>

\* str(e) of the exception a stage raises
ExcText(stage) == stage \o " failed"

\* report.py lines 14-16 and 36; the request number stands for the timestamp
ReportPaths(n) ==
    [csv |-> OUT \o "/report_" \o ToString(n) \o ".csv",
     pdf |-> OUT \o "/report_" \o ToString(n) \o ".pdf"]

\* the handler is past `await agent.run(...)` and has not answered yet
Answering == pc = "Idle" /\ Len(http) < Len(history)

\* line 61: the steps of agent.run, for a request that is being handled
HandleRun == Len(http) = Len(history) /\ Next

\* lines 80-82, the exception came out of agent.run
RespondRunRaised ==
    /\ Answering
    /\ history[Len(http) + 1].raised
    /\ http' = Append(http, [status |-> 500, detail |-> ExcText("run"), body |-> None,
                             exc |-> Some("run")])
    /\ UNCHANGED <<cfgVars, files, nextUuid, run, pc, runVars, logVars, history, harness>>

\* lines 65-73 then 80-82: a create_asset call raises
RespondStoreRaised ==
    /\ Answering
    /\ ~history[Len(http) + 1].raised
    /\ sanity
    /\ history[Len(http) + 1].top # <<>>
    /\ http' = Append(http, [status |-> 500, detail |-> ExcText("store"), body |-> None,
                             exc |-> Some("store")])
    /\ UNCHANGED <<cfgVars, files, nextUuid, run, pc, runVars, logVars, history, harness>>

\* generate_report raises and no except clause of the handler catches it: the
\* server's own error page goes out
RespondReportUncaught ==
    /\ Answering
    /\ ~history[Len(http) + 1].raised
    /\ http' = Append(http, [status |-> 500, detail |-> "Internal Server Error",
                             body |-> None, exc |-> Some("report")])
    /\ UNCHANGED <<cfgVars, files, nextUuid, run, pc, runVars, logVars, history, harness>>

\* line 76 then 80-82: generate_report raises
RespondReportRaised ==
    /\ Answering
    /\ ~history[Len(http) + 1].raised
    /\ http' = Append(http, [status |-> 500, detail |-> ExcText("report"), body |-> None,
                             exc |-> Some("report")])
    /\ UNCHANGED <<cfgVars, files, nextUuid, run, pc, runVars, logVars, history, harness>>

\* lines 62-79: nothing raised
Respond200 ==
    /\ Answering
    /\ ~history[Len(http) + 1].raised
    /\ http' = Append(http, [status |-> 200, detail |-> "",
                             body |-> Some([top_assets |-> history[Len(http) + 1].top,
                                            report |-> ReportPaths(Len(http) + 1)]),
                             exc |-> None])
    /\ UNCHANGED <<cfgVars, files, nextUuid, run, pc, runVars, logVars, history, harness>>

HttpNext ==
    \/ HandleRun
    \/ RespondRunRaised
    \/ RespondStoreRaised
    \/ RespondReportRaised
    \/ Respond200

HttpSpec == HttpInit /\ [][HttpNext]_vars

\* ------------------------------------------------------------ properties
Count(s, x) == Cardinality({i \in 1..Len(s) : s[i] = x})

AfterCopies == pc \in {"CopyGenerated", "PromptsSynthesized", "ImagesRendering",
                       "ImagesComplete", "Scored", "Ranked"}
AfterRender == pc \in {"ImagesComplete", "Scored", "Ranked"}

\* C1: once a run has generated its copies, there are exactly
\* brief.num_headlines headlines and exactly brief.num_long long copies,
\* whatever the text backend did.
C1_ExactCounts ==
    AfterCopies =>
        /\ Len(headlines) = brief.num_headlines
        /\ Len(long_copies) = brief.num_long

\* C2: in a batch that holds two or more render tasks for one prompt text and
\* starts with no cache entry for it, generate_image and cache.set are each
\* called at most once for that prompt while the tasks run, in whatever order
\* they run, and exactly once by the time the batch has been gathered.
Duplicated(p) == Count(prompts, p) >= 2 /\ Key(p) \notin DOMAIN startFiles

C2_OneRenderOneWrite ==
    \A p \in Range(prompts) :
        Duplicated(p) =>
            /\ pc = "ImagesRendering" =>
                   /\ Count(renderLog, p) <= 1
                   /\ Count(writeLog, p) = Count(renderLog, p)
            /\ AfterRender => Count(renderLog, p) = 1 /\ Count(writeLog, p) = 1

\* C2 witness: a gathered batch with three tasks for one uncached prompt
C2_Witness ==
    /\ pc = "ImagesComplete"
    /\ \E p \in Range(prompts) :
          Count(prompts, p) >= 3 /\ Duplicated(p) /\ Count(renderLog, p) = 1

\* C3: two finished runs with the same brief, the same copies and the same
\* prompts, where the cache held an entry for every prompt before the first of
\* them, return the same result: same copies, same images, same scored
\* assets in the same order; the images of a batch that starts warm are all
\* reused from the cache, none is rendered.
WarmFor(h) == \A p \in Range(h.prompts) : Key(p) \in DOMAIN h.startFiles

SameInputs(a, b) ==
    /\ ~history[a].raised /\ ~history[b].raised
    /\ history[a].brief = history[b].brief
    /\ history[a].copies = history[b].copies
    /\ history[a].prompts = history[b].prompts

C3_WarmRunsAgree ==
    /\ \A a \in 1..Len(history), b \in 1..Len(history) :
          (a < b /\ SameInputs(a, b) /\ WarmFor(history[a])) =>
              /\ history[a].top = history[b].top
              /\ history[a].images = history[b].images
    /\ (pc \in {"ImagesRendering", "ImagesComplete", "Scored", "Ranked"}
          /\ \A p \in Range(prompts) : Key(p) \in DOMAIN startFiles) =>
              \A i \in 1..Len(images) :
                  images[i] # None => renderLog = <<>>

\* C3 witness: two such runs that ranked more than TopK scored pairs
C3_Witness ==
    /\ Len(history) = 2
    /\ SameInputs(1, 2) /\ WarmFor(history[1])
    /\ history[1].nresults > TopK
    /\ Len(history[2].top) = TopK

\* C4: a get returns the value of the latest set on that prompt, and None
\* when that prompt was never set; it never fails.
C4_SetThenGet ==
    harness.last # None =>
        LET c == harness.last[1]
        IN  c.op = "get" => c.data = c.storedBefore[c.prompt]

\* C4 witness: a get of a set prompt after another prompt was set as well
C4_Witness ==
    /\ harness.last # None
    /\ harness.last[1].op = "get"
    /\ harness.last[1].data # None
    /\ \E q \in CachePrompts :
          q # harness.last[1].prompt /\ harness.stored[q] # None

\* C9: a generate_image call never raises and returns a {path, url, prompt}
\* record for its prompt; its attempts follow the order new client, legacy
\* client, placeholder, empty record (the clients only under provider
\* "openai"), each attempt before the last failed and the last succeeded.
StepRank(step) ==
    CASE step = "new" -> 1 [] step = "legacy" -> 2 [] step = "placeholder" -> 3 [] OTHER -> 4

C9_NeverRaisesFixedOrder ==
    lastRender # None =>
        LET r == lastRender[1]
            n == Len(r.tried)
        IN  /\ ~r.raised
            /\ DOMAIN r.img = {"path", "url", "prompt"}
            /\ r.img.prompt = r.prompt
            /\ n >= 1
            /\ r.tried[1] = IF provider = "openai" THEN "new" ELSE "placeholder"
            /\ \A k \in 1..(n - 1) :
                  StepRank(r.tried[k + 1]) = StepRank(r.tried[k]) + 1 /\ ~r.ok[k]
            /\ r.ok[n]
            /\ (r.tried[n] = "empty") = (r.img.path = "")
            /\ r.img.url = IF r.tried[n] = "empty" THEN "" ELSE FileUrl(r.img.path)

\* C9 witness: a call where both clients and the placeholder write failed
C9_Witness ==
    /\ lastRender # None
    /\ lastRender[1].tried = <<"new", "legacy", "placeholder", "empty">>
    /\ lastRender[1].img = EmptyImage(lastRender[1].prompt)

\* C10: after set(k, v) a get(k) returns v, also when k held another value;
\* setting the value k already holds leaves the cache as it was; and the
\* value get returns for any other prompt is unchanged.
C10_LastWriteWins ==
    harness.last # None =>
        LET c == harness.last[1]
        IN  c.op = "set" =>
                /\ CacheGet(files, c.prompt) = c.data
                /\ (c.storedBefore[c.prompt] = c.data => files = c.before)
                /\ \A q \in CachePrompts \ {c.prompt} :
                      CacheGet(files, q) = CacheGet(c.before, q)

\* C10 witness: a set that overwrote a different value while another prompt
\* was cached
C10_Witness ==
    /\ harness.last # None
    /\ harness.last[1].op = "set"
    /\ harness.last[1].storedBefore[harness.last[1].prompt] # None
    /\ harness.last[1].storedBefore[harness.last[1].prompt] # harness.last[1].data
    /\ \E q \in CachePrompts \ {harness.last[1].prompt} : CacheGet(files, q) # None

HashedScoreSeen ==
    /\ pc = "Scored"
    /\ embed = "fail" /\ ~clip_model
    /\ \E k \in 1..Len(results) : results[k].score # NeutralScore

\* a scoring the clamp cut down to 1
ClampSeen ==
    /\ pc = "Scored"
    /\ \E k \in 1..Len(results) :
          /\ ~clip_model
          /\ (Cosine(TextEmbedding(results[k].copy, embed), TextEmbedding(Caption, embed))
                 + ScoreScale) \div 2 > ScoreScale
          /\ results[k].score = ScoreScale

\* C6: the returned list is the first min(6, n) of the n scored pairs in
\* descending score order, equal scores in enumeration order (copies outer,
\* headlines before long copies; images inner, in prompt order); no pair left
\* out ranks before a pair kept.
Before(i, j) ==
    \/ results[i].score > results[j].score
    \/ results[i].score = results[j].score /\ i < j

C6_TopKStable ==
    pc = "Ranked" =>
        /\ copies = headlines \o long_copies
        /\ Len(results) = Len(copies) * Len(images)
        /\ \A c \in 1..Len(copies), m \in 1..Len(images) :
              LET r == results[(c - 1) * Len(images) + m]
              IN  r.copy = copies[c] /\ r.local_path = images[m].path
                  /\ r.image_url = images[m].url
        /\ Len(top) = Min(6, Len(results))
        /\ Len(order) = Len(top)
        /\ \A k \in 1..Len(top) : order[k] \in 1..Len(results) /\ top[k] = results[order[k]]
        /\ \A k \in 1..Len(top), l \in 1..Len(top) : k < l => Before(order[k], order[l])
        /\ \A j \in 1..Len(results) :
              j \notin Range(order) => \A k \in 1..Len(order) : Before(order[k], j)

\* C6 witness: a ranking that kept a tie between two different copies and
\* dropped the pairs of a copy that scored lower
C6_Witness ==
    /\ pc = "Ranked"
    /\ Len(results) > TopK
    /\ \E k \in 1..Len(top), l \in 1..Len(top) :
          k < l /\ top[k].score = top[l].score /\ top[k].copy # top[l].copy
    /\ \E j \in 1..Len(results) :
          j \notin Range(order) /\ results[j].score < top[Len(top)].score

\* C7: the scoring step produces one scored asset per copy per distinct
\* prompt text, and the returned list holds min(K, that many).
C7_CopiesTimesDistinctPrompts ==
    pc = "Ranked" =>
        /\ Len(results) = Len(copies) * Cardinality(Range(prompts))
        /\ Len(top) = Min(TopK, Len(copies) * Cardinality(Range(prompts)))

\* C8: no run ends by raising: a run that was entered returns a ranked list.
C8_NeverRaises ==
    /\ pc # "Raised"
    /\ \A a \in 1..Len(history) : ~history[a].raised

C12_Status200Or500 ==
    /\ Len(http) <= Len(history)
    /\ \A k \in 1..Len(http) :
          LET r == http[k]
          IN  /\ r.status \in {200, 500}
              /\ (r.status = 500) = (r.exc # None)
              /\ history[k].raised => r.exc = Some("run")
              /\ r.exc = Some("run") => history[k].raised
              /\ r.exc = Some("store") => sanity /\ history[k].top # <<>>
              /\ r.status = 500 => r.detail = ExcText(r.exc[1]) /\ r.body = None
              /\ r.status = 200 =>
                    r.body = Some([top_assets |-> history[k].top, report |-> ReportPaths(k)])

\* C12 witness: the brief of tests/test_basic.py answered 200 with assets, then
\* answered 500
C12_Witness ==
    /\ Len(http) = 2
    /\ history[1].brief = TestBrief /\ history[2].brief = TestBrief
    /\ http[1].status = 200 /\ http[1].body[1].top_assets # <<>>
    /\ http[2].status = 500

\* C13 as stated: after a run that started from an empty cache and returned,
\* a later run with the same brief renders nothing and writes nothing, and
\* every prompt of either run was rendered exactly once in the two together.
ColdThenSameBrief(a, b) ==
    /\ a < b
    /\ history[a].startFiles = <<>>
    /\ ~history[a].raised /\ ~history[b].raised
    /\ history[a].brief = history[b].brief

C13_SameBriefRendersOnce ==
    \A a \in 1..Len(history), b \in 1..Len(history) :
        ColdThenSameBrief(a, b) =>
            /\ history[b].renderLog = <<>>
            /\ history[b].writeLog = <<>>
            /\ \A p \in Range(history[a].prompts) \cup Range(history[b].prompts) :
                  Count(history[a].renderLog \o history[b].renderLog, p) = 1

\* C13, amended: the same, for a later run that synthesizes only prompt texts
\* the first run synthesized - which every run on the fallback path does.
\* The first run renders each of its distinct prompts exactly once; the
\* second finds them all cached, from its first task on.
C13_SamePromptsRenderOnce ==
    /\ (AfterRender /\ startFiles = <<>>) =>
          \A p \in Range(prompts) : Count(renderLog, p) = 1 /\ Count(writeLog, p) = 1
    /\ (pc \in {"ImagesRendering", "ImagesComplete", "Scored", "Ranked"}
          /\ Len(history) >= 1 /\ history[1].startFiles = <<>> /\ ~history[1].raised
          /\ history[1].brief = brief /\ Range(prompts) \subseteq Range(history[1].prompts)) =>
              renderLog = <<>> /\ writeLog = <<>>
    /\ \A a \in 1..Len(history), b \in 1..Len(history) :
          ColdThenSameBrief(a, b) =>
              /\ ~LANGCHAIN_AVAILABLE => history[a].prompts = history[b].prompts
              /\ Range(history[b].prompts) \subseteq Range(history[a].prompts) =>
                    /\ history[b].renderLog = <<>>
                    /\ history[b].writeLog = <<>>
                    /\ \A p \in Range(history[a].prompts) :
                          Count(history[a].renderLog \o history[b].renderLog, p) = 1

\* C13 witness: two returned runs of one brief from an empty cache, the first
\* rendered for several tasks, the second reused a record without a file
C13_Witness ==
    /\ Len(history) = 2
    /\ ColdThenSameBrief(1, 2)
    /\ Len(history[1].prompts) >= 2
    /\ history[1].prompts = history[2].prompts
    /\ Len(history[1].renderLog) = 1
    /\ history[2].renderLog = <<>>
    /\ history[2].images[1].path = ""

\* C14: within a run the stages follow each other in the order copy
\* generation, prompt synthesis, image rendering, scoring, ranking; a stage
\* once left is not entered again before the run ends; the copies, the
\* prompts, the cache, the scores and the ranking change only in their own
\* stage; and scoring starts only when every render task of the batch is done.
StageRank(stage) ==
    CASE stage = "Idle" -> 0
      [] stage = "CopyGenerated" -> 1
      [] stage = "PromptsSynthesized" -> 2
      [] stage = "ImagesRendering" -> 3
      [] stage = "ImagesComplete" -> 4
      [] stage = "Scored" -> 5
      [] stage = "Ranked" -> 6
      [] OTHER -> 7

AllTasksDone == \A i \in 1..Len(task) : task[i] = "done"

C14_StageOrder ==
    [][/\ pc' # pc =>
            \/ pc' = "Idle" /\ pc \in {"Ranked", "Raised"}
            \/ pc' = "Raised" /\ pc \in {"Idle", "CopyGenerated"}
            \/ pc' # "Raised" /\ StageRank(pc') = StageRank(pc) + 1
       /\ run' # run => pc = "Idle" /\ run' = run + 1
       /\ copies' # copies => pc = "Idle"
       /\ prompts' # prompts => pc \in {"Idle", "CopyGenerated"}
       /\ files' # files => pc = "ImagesRendering" /\ pc' = "ImagesRendering"
       /\ task' # task => pc \in {"Idle", "PromptsSynthesized", "ImagesRendering"}
       /\ (results' # results /\ results' # <<>>) =>
              /\ pc = "ImagesComplete" /\ pc' = "Scored"
              /\ AllTasksDone /\ Len(task) = Len(prompts) /\ Len(images) = Len(prompts)
       /\ (top' # top /\ top' # <<>>) => pc = "Scored" /\ pc' = "Ranked"
       /\ pc' \in {"ImagesComplete", "Scored", "Ranked"} =>
              /\ \A i \in 1..Len(task') : task'[i] = "done"
              /\ Len(task') = Len(prompts')
       /\ pc' \in {"Idle", "CopyGenerated", "PromptsSynthesized", "ImagesRendering",
                    "ImagesComplete", "Raised"} /\ pc' # pc /\ pc # "Ranked"
              => results' = <<>>
      ]_vars

\* C14 witness: a run that reached its ranking after a batch of three tasks,
\* one of which rendered
C14_Witness ==
    /\ pc = "Ranked"
    /\ Len(task) = 3 /\ AllTasksDone
    /\ Len(renderLog) = 1
    /\ Len(results) = 9
    /\ top # <<>>

\* C15: in one batch, whatever the order of the tasks, the tasks that have
\* resolved the same prompt text hold the same record (same path, same url):
\* the one the cache held when the batch was issued, or else the one the
\* single render of that prompt returned.
Resolved(i) == IF pc = "ImagesRendering" THEN images[i] ELSE Some(images[i])

C15_OneImagePerPrompt ==
    pc \in {"ImagesRendering", "ImagesComplete", "Scored", "Ranked"} =>
        /\ Len(images) = Len(prompts)
        /\ \A i \in 1..Len(prompts), j \in 1..Len(prompts) :
              (prompts[i] = prompts[j] /\ Resolved(i) # None /\ Resolved(j) # None) =>
                  /\ Resolved(i) = Resolved(j)
                  /\ Resolved(i)[1].path = Resolved(j)[1].path
                  /\ Resolved(i)[1].url = Resolved(j)[1].url
        /\ \A i \in 1..Len(prompts) :
              (Resolved(i) # None /\ Key(prompts[i]) \in DOMAIN startFiles) =>
                  Resolved(i) = CacheGet(startFiles, prompts[i])

\* C15 witness: a gathered batch of exactly two tasks for one uncached prompt
\* that share a rendered file
C15_Witness ==
    /\ pc = "ImagesComplete"
    /\ Len(prompts) = 2
    /\ prompts[1] = prompts[2]
    /\ Key(prompts[1]) \notin DOMAIN startFiles
    /\ images[1].path # ""
    /\ images[1] = images[2]

\* C16: the order in which the render tasks run leaves no trace in the
\* result.  Once the batch is gathered, image i is the record of prompt i -
\* the one the cache holds for that prompt text - whatever order the tasks ran
\* in; the prompts rendered are exactly the distinct prompts the cache did not
\* hold, each once; and the scored pairs and the ranked list are the fixed
\* function of the copies and of these images.  Without CLIP the ranking (which
\* copy with which prompt's image, at which score) is computed here from the
\* copies and the prompts alone, with no reference to what the tasks did.
ImagesInPromptOrder == [i \in 1..Len(prompts) |-> CacheGet(files, prompts[i])[1]]

PairsWithoutImages ==
    ScorePairs(copies, [i \in 1..Len(prompts) |-> EmptyImage(prompts[i])], embed, FALSE)

C16_TaskOrderIrrelevant ==
    /\ AfterRender =>
          /\ images = ImagesInPromptOrder
          /\ \A i \in 1..Len(prompts) : images[i].prompt = prompts[i]
          /\ \A i \in 1..Len(prompts) :
                Count(renderLog, prompts[i]) =
                    (IF Key(prompts[i]) \in DOMAIN startFiles THEN 0 ELSE 1)
          /\ Len(renderLog) =
                Cardinality({q \in Range(prompts) : Key(q) \notin DOMAIN startFiles})
    /\ pc \in {"Scored", "Ranked"} =>
          results = ScorePairs(copies, ImagesInPromptOrder, embed, clip_model)
    /\ pc = "Ranked" =>
          top = [k \in 1..Min(TopK, Len(results)) |->
                    ScorePairs(copies, ImagesInPromptOrder, embed, clip_model)[
                        SortedOrder(results, Len(results))[k]]]
    /\ (pc = "Ranked" /\ ~clip_model) =>
          /\ order = TopOrder(PairsWithoutImages)
          /\ \A k \in 1..Len(top) :
                /\ top[k].copy = PairsWithoutImages[order[k]].copy
                /\ top[k].score = PairsWithoutImages[order[k]].score
                /\ top[k].local_path = images[((order[k] - 1) % Len(prompts)) + 1].path

\* C16 witness: a ranked run whose two tasks, for different prompts, rendered
\* in the order opposite to the prompt order
C16_Witness ==
    /\ pc = "Ranked"
    /\ Len(prompts) = 2
    /\ prompts[1] # prompts[2]
    /\ renderLog = <<prompts[2], prompts[1]>>
    /\ images[1].path # "" /\ images[2].path # ""

\* C17: the batch holds one render task per distinct prompt text: as many
\* tasks as there are distinct prompts.
C17_OneTaskPerDistinctPrompt ==
    pc \in {"ImagesRendering", "ImagesComplete", "Scored", "Ranked"} =>
        Len(task) = Cardinality(Range(prompts))

\* C18: synthesis gives one prompt per copy, in copy order, and the prompt
\* of a copy carries that copy's text: on the template path two different
\* copies of a run never get the same prompt text.
C18_PromptCarriesCopy ==
    (pc \in {"PromptsSynthesized", "ImagesRendering", "ImagesComplete", "Scored", "Ranked"}
        /\ ~LANGCHAIN_AVAILABLE) =>
            /\ Len(prompts) = Len(copies)
            /\ \A i \in 1..Len(copies), j \in 1..Len(copies) :
                  copies[i] # copies[j] => prompts[i] # prompts[j]

\* C19: every file of the cache directory is the file of exactly the prompt
\* text its record names: the entry under the key of p holds a {path, url,
\* prompt} record with prompt = p, so a task that hits the cache for p gets a
\* record made for p, never one rendered for another prompt text.
C19_EntryNamesItsPrompt ==
    /\ \A k \in 1..Len(PromptSeq) :
          Key(PromptSeq[k]) \in DOMAIN files =>
              /\ CacheGet(files, PromptSeq[k])[1].prompt = PromptSeq[k]
              /\ files[Key(PromptSeq[k])] = JsonDump(CacheGet(files, PromptSeq[k])[1])
    /\ \A f \in DOMAIN files : \E k \in 1..Len(PromptSeq) : f = Key(PromptSeq[k])
    /\ pc = "ImagesRendering" =>
          \A i \in 1..Len(images) : images[i] # None => images[i][1].prompt = prompts[i]
    /\ AfterRender => \A i \in 1..Len(images) : images[i].prompt = prompts[i]

\* C19 witness: in its second run the process hits the cache for a prompt
\* while the cache also holds an entry, written in the first run, for
\* another prompt
C19_Witness ==
    /\ pc = "ImagesComplete"
    /\ Len(history) = 1
    /\ history[1].startFiles = <<>>
    /\ history[1].writeLog # <<>>
    /\ renderLog = <<>>
    /\ prompts # <<>>
    /\ \E q \in Range(history[1].writeLog) : q \notin Range(prompts)
    /\ \A i \in 1..Len(prompts) : prompts[i] \in Range(history[1].writeLog)

\* C20: whatever a render returned - an image from a client, the placeholder
\* or the record without a file - is the cache entry of its prompt right
\* after the call, and stays it: every later task and every later run that
\* resolves that prompt gets this same record and makes no render call for
\* it, although a call made then could have reached the backend.
RecordFor(h, p) == h.images[CHOOSE i \in 1..Len(h.prompts) : h.prompts[i] = p]

C20_FallbackRecordSticks ==
    /\ lastRender # None =>
          /\ CacheGet(files, lastRender[1].prompt) = Some(lastRender[1].img)
          /\ Count(writeLog, lastRender[1].prompt) = 1
    /\ \A a \in 1..Len(history) :
          \A p \in Range(history[a].renderLog) :
              /\ CacheGet(files, p) = Some(RecordFor(history[a], p))
              /\ \A b \in 1..Len(history) :
                    (a < b /\ p \in Range(history[b].prompts)) =>
                        /\ p \notin Range(history[b].renderLog)
                        /\ RecordFor(history[b], p) = RecordFor(history[a], p)
              /\ (run > Len(history) /\ a <= Len(history)) =>
                    /\ p \notin Range(renderLog)
                    /\ \A i \in 1..Len(images) :
                          (prompts[i] = p /\ Resolved(i) # None) =>
                              Resolved(i) = Some(RecordFor(history[a], p))

\* C20 witness: with provider "openai", a first run got the record without a
\* file for a prompt (both clients and the placeholder write failed), and a
\* second run has gathered that same record for it without a render call
C20_Witness ==
    /\ provider = "openai"
    /\ Len(history) = 1
    /\ pc = "ImagesComplete"
    /\ \E p \in Range(history[1].renderLog) :
          /\ RecordFor(history[1], p) = EmptyImage(p)
          /\ p \in Range(prompts)
          /\ \A i \in 1..Len(prompts) : prompts[i] = p => images[i] = EmptyImage(p)
    /\ renderLog = <<>>

====
